---- MODULE Spec2Model ----
(***************************************************************************)
(* Model of the Vulkan task manager (src/common/task.c): the process-wide  *)
(* task queue, the scheduler registry, the running flag, the tick          *)
(* dispatcher and the task / scheduler lifecycle operations.               *)
(***************************************************************************)
EXTENDS Integers, Sequences, FiniteSets, TLC

\* ------------------------------------------------------------------ bounds
MaxTasks == 2
MaxTime == 3
MaxDelay == 1
MaxCallTime == 1
MaxCalls == 2
MaxSchedulers == 2

\* ------------------------------------------------------------- vocabulary
NULL == 0
TaskHandles == 1..MaxTasks
Delays == 0..MaxDelay
TaskIds == (0 - 1)..MaxTasks
SchedHandles == 1..MaxSchedulers

\* the threads that call the API: the main thread and one more
Callers == {"main", "aux"}

\* where a scheduler thread has left taskmgr_run: line 112 (already running,
\* result 1), line 120 (a tick failed, result 1), line 126 (flag cleared, 0)
Returned == {"returned_112", "returned_120", "returned_126"}

TASK_RESULT_CONT == "CONT"
TASK_RESULT_WAIT == "WAIT"
TASK_RESULT_DONE == "DONE"
TASK_RESULT_OTHER == "OTHER"

\* callables the collaborators register, by the tags they may return
Funcs == {"f_done", "f_wait", "f_any"}

FuncResults(f) ==
  CASE f = "f_done" -> {TASK_RESULT_DONE}
    [] f = "f_wait" -> {TASK_RESULT_WAIT}
    [] f = "f_cont" -> {TASK_RESULT_CONT}
    [] f = "resync_chain" -> {TASK_RESULT_WAIT}
    [] OTHER -> {TASK_RESULT_CONT, TASK_RESULT_WAIT, TASK_RESULT_DONE, TASK_RESULT_OTHER}

VARIABLES
  taskmgr_next_task_id,
  taskmgr_next_scheduler_id,
  taskmgr_task_queue,
  taskmgr_scheduler_queue,
  taskmgr_running,
  heap,
  now,
  crashed,
  op,
  ret,
  ran,
  calls,
  armed_at,
  initialised,
  sched,
  cpc,
  creg,
  spc,
  sreg,
  shut_inside

vars == <<taskmgr_next_task_id, taskmgr_next_scheduler_id, taskmgr_task_queue,
          taskmgr_scheduler_queue, taskmgr_running, heap, now, crashed, op,
          ret, ran, calls, armed_at, initialised, sched, cpc, creg, spc, sreg,
          shut_inside>>

\* ------------------------------------------------------------ ready queue
NullQueue == [alloc |-> "null", objs |-> <<>>]

queue_init == [alloc |-> "live", objs |-> <<>>]

queue_free(queue) == [queue EXCEPT !.alloc = "freed"]

queue_max_index(queue) == Len(queue.objs) - 1

queue_get_empty(queue) == Len(queue.objs) = 0

queue_get(queue, index) == queue.objs[index + 1]

queue_get_index(queue, object) ==
  IF \E i \in 1..Len(queue.objs) : queue.objs[i] = object
    THEN (CHOOSE i \in 1..Len(queue.objs) :
            /\ queue.objs[i] = object
            /\ \A j \in 1..(i - 1) : queue.objs[j] # object) - 1
    ELSE 0 - 1

queue_push_right(queue, object) == [queue EXCEPT !.objs = Append(@, object)]

\* the object queue_pop_left returns, and the queue it leaves
queue_front(queue) == IF Len(queue.objs) = 0 THEN NULL ELSE Head(queue.objs)

queue_drop_left(queue) ==
  IF Len(queue.objs) = 0 THEN queue ELSE [queue EXCEPT !.objs = Tail(@)]

queue_remove(queue, index) ==
  [queue EXCEPT !.objs = SubSeq(@, 1, index) \o SubSeq(@, index + 2, Len(@))]

\* result of queue_remove_object: 0 and the object gone, or 1 and no change
queue_remove_object_ret(queue, object) ==
  IF queue_get_index(queue, object) = 0 - 1 THEN 1 ELSE 0

queue_remove_object(queue, object) ==
  IF queue_get_index(queue, object) = 0 - 1
    THEN queue
    ELSE queue_remove(queue, queue_get_index(queue, object))

\* --------------------------------------------------------------- the heap
UnusedTask ==
  [alloc |-> "unused", id |-> 0 - 1, func |-> "f_done", delayable |-> FALSE,
   delay |-> 0, timestamp |-> 0, mutex |-> "uninit"]

get_current_time == now

UnusedScheduler == [alloc |-> "unused", id |-> 0 - 1]

NoReg == [tmp |-> 0 - 1, obj |-> NULL]

NoTask == [task |-> NULL, result |-> "none"]

\* free_task, lines 217-226: sentinel the fields, destroy the guard, free
free_task_heap(h, task) ==
  [h EXCEPT ![task] = [@ EXCEPT !.id = 0 - 1, !.delayable = FALSE, !.delay = 0,
                                !.timestamp = 0, !.mutex = "destroyed",
                                !.alloc = "freed"]]

\* a lookup that settles for the task at the front of the queue
task_by_id_front(queue, h, id) == queue_front(queue)

\* lines 180-191: the linear scan for an id, over a given queue and heap
task_by_id(queue, h, id) ==
  IF \E i \in 0..queue_max_index(queue) : h[queue_get(queue, i)].id = id
    THEN queue_get(queue,
           CHOOSE i \in 0..queue_max_index(queue) :
             /\ h[queue_get(queue, i)].id = id
             /\ \A j \in 0..(i - 1) : h[queue_get(queue, j)].id # id)
    ELSE NULL

get_task_by_id(id) == task_by_id(taskmgr_task_queue, heap, id)

has_task(task) == queue_get_index(taskmgr_task_queue, task) # 0 - 1

has_task_by_id(id) == get_task_by_id(id) # NULL

\* ------------------------------------------------------------------- Init
\* op, ret: the operation the last step performed and what it returned;
\* ran: the callable that step invoked and the tag the callable returned
NoRun == [task |-> NULL, result |-> "none"]

\* operation o returns r without having invoked a callable
Returns(o, r) == op' = o /\ ret' = r /\ ran' = NoRun

Init ==
  /\ taskmgr_next_task_id = 0 - 1
  /\ taskmgr_next_scheduler_id = 0 - 1
  /\ taskmgr_task_queue = NullQueue
  /\ taskmgr_scheduler_queue = NullQueue
  /\ taskmgr_running = FALSE
  /\ heap = [h \in TaskHandles |-> UnusedTask]
  /\ now = 0
  /\ crashed = FALSE
  /\ op = "none"
  /\ ret = 0
  /\ ran = NoRun
  /\ calls = [h \in TaskHandles |-> 0]
  /\ armed_at = [h \in TaskHandles |-> 0 - 1]
  /\ initialised = FALSE
  /\ sched = [s \in SchedHandles |-> UnusedScheduler]
  /\ cpc = [c \in Callers |-> "idle"]
  /\ creg = [c \in Callers |-> NoReg]
  /\ spc = [s \in SchedHandles |-> "none"]
  /\ sreg = [s \in SchedHandles |-> NoTask]
  /\ shut_inside = {}

\* ------------------------------------------------- sequential API actions
ghosts == <<calls, armed_at>>

threads == <<sched, cpc, creg, spc, sreg>>

advance_clock ==
  /\ ~crashed
  /\ now < MaxTime
  /\ now' = now + 1
  /\ Returns("clock", 0)
  /\ UNCHANGED <<taskmgr_next_task_id, taskmgr_next_scheduler_id, taskmgr_task_queue,
                 taskmgr_scheduler_queue, taskmgr_running, heap, crashed, ghosts,
                 initialised, threads, shut_inside>>

taskmgr_init ==
  /\ ~crashed
  /\ IF taskmgr_running
       THEN /\ Returns("taskmgr_init", 1)
            /\ UNCHANGED <<taskmgr_task_queue, taskmgr_scheduler_queue, initialised>>
       ELSE /\ taskmgr_task_queue' = queue_init
            /\ taskmgr_scheduler_queue' = queue_init
            /\ initialised' = TRUE
            /\ Returns("taskmgr_init", 0)
  /\ UNCHANGED <<taskmgr_next_task_id, taskmgr_next_scheduler_id, taskmgr_running,
                 heap, now, crashed, ghosts, threads, shut_inside>>

add_task(func, delay) ==
  /\ ~crashed
  /\ taskmgr_task_queue.alloc = "live"
  /\ \E task \in TaskHandles :
       /\ heap[task].alloc = "unused"
       /\ \A other \in TaskHandles : heap[other].alloc = "unused" => task <= other
       /\ taskmgr_next_task_id' = taskmgr_next_task_id + 1
       /\ heap' = [heap EXCEPT ![task] =
                     [alloc |-> "live", id |-> taskmgr_next_task_id + 1, func |-> func,
                      delayable |-> TRUE, delay |-> delay,
                      timestamp |-> get_current_time, mutex |-> "unlocked"]]
       /\ taskmgr_task_queue' = queue_push_right(taskmgr_task_queue, task)
       /\ armed_at' = [armed_at EXCEPT ![task] = IF func = "f_wait" THEN now ELSE @]
       /\ Returns("add_task", task)
  /\ UNCHANGED <<taskmgr_next_scheduler_id, taskmgr_scheduler_queue, taskmgr_running,
                 now, crashed, calls, initialised, threads, shut_inside>>

\* a dispatcher that takes every task it pops for due
task_not_due_never(rec, time) == FALSE

\* lines 67-76: the due-time check on the fields the dispatcher reads
task_not_due(rec, time) == rec.delayable /\ time - rec.timestamp < rec.delay

\* what a read of a task record may observe: the record itself while it is
\* allocated; after free() the stale bytes or whatever the allocator left
TaskView(task) ==
  IF heap[task].alloc = "live"
    THEN {heap[task]}
    ELSE {[heap[task] EXCEPT !.delayable = d, !.delay = dl, !.timestamp = ts] :
            d \in BOOLEAN, dl \in {0, MaxDelay}, ts \in {0, now}}

\* a dispatcher that re-enqueues whatever the callable returned
tick_result_queue_always_push(queue, task, result) == queue_push_right(queue, task)

\* a dispatcher that re-enqueues nothing
tick_result_queue_never_push(queue, task, result) == queue

\* lines 87-102: what the result tag does to the queue and to the task
tick_result_queue(queue, task, result) ==
  IF result \in {TASK_RESULT_CONT, TASK_RESULT_WAIT}
    THEN queue_push_right(queue, task)
    ELSE queue

\* a WAIT branch that forgets to reset the timestamp
tick_result_heap_stale_stamp(h, task, result, time) ==
  CASE result = TASK_RESULT_CONT -> [h EXCEPT ![task].delayable = FALSE]
    [] result = TASK_RESULT_WAIT -> [h EXCEPT ![task].delayable = TRUE]
    [] OTHER -> free_task_heap(h, task)

\* a CONTINUE branch that re-arms the delay as the WAIT branch does
tick_result_heap_cont_rearms(h, task, result, time) ==
  CASE result \in {TASK_RESULT_CONT, TASK_RESULT_WAIT} ->
         [h EXCEPT ![task].delayable = TRUE, ![task].timestamp = time]
    [] OTHER -> free_task_heap(h, task)

tick_result_heap(h, task, result, time) ==
  CASE result = TASK_RESULT_CONT -> [h EXCEPT ![task].delayable = FALSE]
    [] result = TASK_RESULT_WAIT ->
         [h EXCEPT ![task].delayable = TRUE, ![task].timestamp = time]
    [] OTHER -> free_task_heap(h, task)

\* calls: invocations of each single-tag callable, saturating
Bump(func, n) ==
  IF func \in {"f_done", "f_wait", "f_cont", "resync_chain"} /\ n < MaxCalls
    THEN n + 1 ELSE n

\* a dispatcher that puts a task that is not due back where it was
tick_requeue_front(queue, task) == [queue EXCEPT !.objs = <<task>> \o @]

\* line 73: a task that is not due goes to the back of the queue
tick_requeue(queue, task) == queue_push_right(queue, task)

\* lines 67-102 for the popped task, queue1 being the queue after the pop
tick_dispatch(task, view, queue1) ==
  IF task_not_due(view, get_current_time)
    THEN /\ taskmgr_task_queue' = tick_requeue(queue1, task)
         /\ Returns("taskmgr_tick", 0)
         /\ UNCHANGED <<heap, now, crashed, ghosts>>
    ELSE \E result \in FuncResults(view.func), dt \in 0..MaxCallTime :
           /\ now + dt <= MaxTime
           /\ now' = now + dt
           /\ calls' = [calls EXCEPT ![task] = Bump(view.func, @)]
           /\ armed_at' = [armed_at EXCEPT ![task] = IF view.func = "f_wait" THEN now ELSE @]
           /\ taskmgr_task_queue' = tick_result_queue(queue1, task, result)
           /\ op' = "taskmgr_tick"
           /\ ret' = 0
           /\ ran' = [task |-> task, result |-> result]
           /\ \/ /\ heap' = tick_result_heap(heap, task, result, now + dt)
                 /\ UNCHANGED crashed
              \/ /\ heap[task].alloc = "freed"
                 /\ result \notin {TASK_RESULT_CONT, TASK_RESULT_WAIT}
                 /\ crashed' = TRUE
                 /\ UNCHANGED heap

\* a dispatcher that pops without looking at the queue first
tick_has_work_unchecked(queue) == TRUE

\* line 59: the dispatcher does something only when the queue is not empty
tick_has_work(queue) == ~queue_get_empty(queue)

taskmgr_tick ==
  /\ ~crashed
  /\ taskmgr_task_queue.alloc = "live"
  /\ IF ~tick_has_work(taskmgr_task_queue)
       THEN /\ Returns("taskmgr_tick", 0)
            /\ UNCHANGED <<taskmgr_task_queue, heap, now, crashed, ghosts>>
       ELSE LET task == queue_front(taskmgr_task_queue)
                queue1 == queue_drop_left(taskmgr_task_queue)
            IN  IF task = NULL
                  THEN /\ taskmgr_task_queue' = queue1
                       /\ Returns("taskmgr_tick", 1)
                       /\ UNCHANGED <<heap, now, crashed, ghosts>>
                  ELSE \/ \E view \in TaskView(task) : tick_dispatch(task, view, queue1)
                       \/ /\ heap[task].alloc = "freed"
                          /\ crashed' = TRUE
                          /\ taskmgr_task_queue' = queue1
                          /\ Returns("taskmgr_tick", 0)
                          /\ UNCHANGED <<heap, now, ghosts>>
  /\ UNCHANGED <<taskmgr_next_task_id, taskmgr_next_scheduler_id,
                 taskmgr_scheduler_queue, taskmgr_running, initialised, threads, shut_inside>>

\* lines 215-227; freeing a record twice is undefined: the call returns 0
\* as it always does, or the allocator aborts the process
free_task(task) ==
  /\ ~crashed
  /\ heap[task].alloc # "unused"
  /\ Returns("free_task", 0)
  /\ \/ /\ heap' = free_task_heap(heap, task)
        /\ UNCHANGED crashed
     \/ /\ heap[task].alloc = "freed"
        /\ crashed' = TRUE
        /\ UNCHANGED heap
  /\ UNCHANGED <<taskmgr_next_task_id, taskmgr_next_scheduler_id, taskmgr_task_queue,
                 taskmgr_scheduler_queue, taskmgr_running, now, ghosts, initialised, threads, shut_inside>>

remove_task(task) ==
  /\ ~crashed
  /\ taskmgr_task_queue.alloc = "live"
  /\ heap[task].alloc # "unused"
  /\ IF queue_remove_object_ret(taskmgr_task_queue, task) # 0
       THEN /\ Returns("remove_task", 1)
            /\ UNCHANGED <<taskmgr_task_queue, heap, crashed>>
       ELSE /\ taskmgr_task_queue' = queue_remove_object(taskmgr_task_queue, task)
            /\ Returns("remove_task", 0)
            /\ \/ /\ heap' = free_task_heap(heap, task)
                  /\ UNCHANGED crashed
               \/ /\ heap[task].alloc = "freed"
                  /\ crashed' = TRUE
                  /\ UNCHANGED heap
  /\ UNCHANGED <<taskmgr_next_task_id, taskmgr_next_scheduler_id,
                 taskmgr_scheduler_queue, taskmgr_running, now, ghosts, initialised, threads, shut_inside>>

remove_task_by_id(id) ==
  /\ ~crashed
  /\ taskmgr_task_queue.alloc = "live"
  /\ LET task == get_task_by_id(id)
     IN  IF task = NULL
           THEN /\ Returns("remove_task_by_id", 1)
                /\ UNCHANGED <<taskmgr_task_queue, heap, crashed>>
           ELSE /\ taskmgr_task_queue' = queue_remove_object(taskmgr_task_queue, task)
                /\ Returns("remove_task_by_id", queue_remove_object_ret(taskmgr_task_queue, task))
                /\ \/ /\ heap' = free_task_heap(heap, task)
                      /\ UNCHANGED crashed
                   \/ /\ heap[task].alloc = "freed"
                      /\ crashed' = TRUE
                      /\ UNCHANGED heap
  /\ UNCHANGED <<taskmgr_next_task_id, taskmgr_next_scheduler_id,
                 taskmgr_scheduler_queue, taskmgr_running, now, ghosts, initialised, threads, shut_inside>>

free_task_by_id(id) ==
  /\ ~crashed
  /\ taskmgr_task_queue.alloc = "live"
  /\ LET task == get_task_by_id(id)
     IN  IF task = NULL
           THEN /\ Returns("free_task_by_id", 1)
                /\ UNCHANGED <<heap, crashed>>
           ELSE /\ Returns("free_task_by_id", 0)
                /\ \/ /\ heap' = free_task_heap(heap, task)
                      /\ UNCHANGED crashed
                   \/ /\ heap[task].alloc = "freed"
                      /\ crashed' = TRUE
                      /\ UNCHANGED heap
  /\ UNCHANGED <<taskmgr_next_task_id, taskmgr_next_scheduler_id, taskmgr_task_queue,
                 taskmgr_scheduler_queue, taskmgr_running, now, ghosts, initialised, threads, shut_inside>>

taskmgr_shutdown ==
  /\ ~crashed
  /\ IF ~taskmgr_running
       THEN /\ Returns("taskmgr_shutdown", 1)
            /\ UNCHANGED <<taskmgr_running, taskmgr_task_queue,
                           taskmgr_scheduler_queue, initialised, shut_inside>>
       ELSE /\ taskmgr_running' = FALSE
            /\ taskmgr_task_queue' = queue_free(taskmgr_task_queue)
            /\ taskmgr_scheduler_queue' = queue_free(taskmgr_scheduler_queue)
            /\ initialised' = FALSE
            /\ shut_inside' = {s \in SchedHandles : spc[s] \notin {"none"} \cup Returned}
            /\ Returns("taskmgr_shutdown", 0)
  /\ UNCHANGED <<taskmgr_next_task_id, taskmgr_next_scheduler_id, heap, now,
                 crashed, ghosts, threads>>

\* ------------------------------------------------------ scheduler threads
\* a step of a thread other than a whole API call
Silent == op' = "thread" /\ ret' = 0 /\ ran' = NoRun

counters == <<taskmgr_next_task_id, taskmgr_next_scheduler_id>>

\* a taskmgr_run that loops although another thread is running already
run_may_enter_always(running) == TRUE

\* line 110: taskmgr_run goes on only when nobody is running yet
run_may_enter(running) == ~running

\* lines 110-113
sched_run_check(s) ==
  /\ ~crashed
  /\ spc[s] = "run_check"
  /\ spc' = [spc EXCEPT ![s] = IF run_may_enter(taskmgr_running)
                                 THEN "run_set" ELSE "returned_112"]
  /\ Silent
  /\ UNCHANGED <<counters, taskmgr_task_queue, taskmgr_scheduler_queue, taskmgr_running,
                 heap, now, crashed, ghosts, initialised, sched, cpc, creg, sreg,
                 shut_inside>>

\* line 115
sched_run_set(s) ==
  /\ ~crashed
  /\ spc[s] = "run_set"
  /\ taskmgr_running' = TRUE
  /\ spc' = [spc EXCEPT ![s] = "loop"]
  /\ Silent
  /\ UNCHANGED <<counters, taskmgr_task_queue, taskmgr_scheduler_queue, heap, now,
                 crashed, ghosts, initialised, sched, cpc, creg, sreg, shut_inside>>

\* lines 116 and 126 (sched_yield of line 123 changes nothing)
sched_run_loop(s) ==
  /\ ~crashed
  /\ spc[s] = "loop"
  /\ spc' = [spc EXCEPT ![s] = IF taskmgr_running THEN "tick_empty" ELSE "returned_126"]
  /\ Silent
  /\ UNCHANGED <<counters, taskmgr_task_queue, taskmgr_scheduler_queue, taskmgr_running,
                 heap, now, crashed, ghosts, initialised, sched, cpc, creg, sreg,
                 shut_inside>>

\* line 59; a freed queue answers either way
sched_tick_empty(s) ==
  /\ ~crashed
  /\ spc[s] = "tick_empty"
  /\ \/ /\ taskmgr_task_queue.alloc # "null"
        /\ spc' = [spc EXCEPT ![s] = IF tick_has_work(taskmgr_task_queue)
                                       THEN "tick_pop" ELSE "loop"]
     \/ /\ taskmgr_task_queue.alloc = "freed"
        /\ \E next \in {"tick_pop", "loop"} : spc' = [spc EXCEPT ![s] = next]
  /\ Silent
  /\ UNCHANGED <<counters, taskmgr_task_queue, taskmgr_scheduler_queue, taskmgr_running,
                 heap, now, crashed, ghosts, initialised, sched, cpc, creg, sreg,
                 shut_inside>>

\* line 61, first half of queue_pop_left: read the object at the front
sched_tick_pop(s) ==
  /\ ~crashed
  /\ spc[s] = "tick_pop"
  /\ \/ /\ taskmgr_task_queue.alloc # "null"
        /\ sreg' = [sreg EXCEPT ![s] = [task |-> queue_front(taskmgr_task_queue),
                                        result |-> "none"]]
     \/ /\ taskmgr_task_queue.alloc = "freed"
        /\ sreg' = [sreg EXCEPT ![s] = NoTask]
  /\ spc' = [spc EXCEPT ![s] = "tick_pop_remove"]
  /\ Silent
  /\ UNCHANGED <<counters, taskmgr_task_queue, taskmgr_scheduler_queue, taskmgr_running,
                 heap, now, crashed, ghosts, initialised, sched, cpc, creg, shut_inside>>

\* line 61, second half of queue_pop_left: take the front slot out; lines 62-65
sched_tick_pop_remove(s) ==
  /\ ~crashed
  /\ spc[s] = "tick_pop_remove"
  /\ taskmgr_task_queue.alloc # "null"
  /\ IF sreg[s].task = NULL
       THEN /\ spc' = [spc EXCEPT ![s] = "returned_120"]
            /\ UNCHANGED taskmgr_task_queue
       ELSE /\ spc' = [spc EXCEPT ![s] = "tick_due"]
            /\ taskmgr_task_queue' = queue_drop_left(taskmgr_task_queue)
  /\ Silent
  /\ UNCHANGED <<counters, taskmgr_scheduler_queue, taskmgr_running, heap, now, crashed,
                 ghosts, initialised, sched, cpc, creg, sreg, shut_inside>>

\* lines 67-76
sched_tick_due(s) ==
  /\ ~crashed
  /\ spc[s] = "tick_due"
  /\ \E view \in TaskView(sreg[s].task) :
       IF task_not_due(view, get_current_time)
         THEN /\ taskmgr_task_queue.alloc # "null"
              /\ taskmgr_task_queue' = tick_requeue(taskmgr_task_queue, sreg[s].task)
              /\ spc' = [spc EXCEPT ![s] = "loop"]
              /\ sreg' = [sreg EXCEPT ![s] = NoTask]
         ELSE /\ spc' = [spc EXCEPT ![s] = "tick_call"]
              /\ UNCHANGED <<taskmgr_task_queue, sreg>>
  /\ Silent
  /\ UNCHANGED <<counters, taskmgr_scheduler_queue, taskmgr_running, heap, now, crashed,
                 ghosts, initialised, sched, cpc, creg, shut_inside>>

\* lines 78-82: take the guard (blocking while another thread holds it) and
\* run the callable, which returns its tag
sched_tick_call(s) ==
  /\ ~crashed
  /\ spc[s] = "tick_call"
  /\ heap[sreg[s].task].mutex # "locked"
  /\ heap' = [heap EXCEPT ![sreg[s].task].mutex =
                IF @ = "unlocked" THEN "locked" ELSE @]
  /\ \E result \in FuncResults(heap[sreg[s].task].func) :
       /\ sreg' = [sreg EXCEPT ![s].result = result]
       /\ ran' = [task |-> sreg[s].task, result |-> result]
  /\ calls' = [calls EXCEPT ![sreg[s].task] = Bump(heap[sreg[s].task].func, @)]
  /\ op' = "thread"
  /\ ret' = 0
  /\ spc' = [spc EXCEPT ![s] = "tick_unlock"]
  /\ UNCHANGED <<counters, taskmgr_task_queue, taskmgr_scheduler_queue, taskmgr_running,
                 now, crashed, armed_at, initialised, sched, cpc, creg, shut_inside>>

\* line 83
sched_tick_unlock(s) ==
  /\ ~crashed
  /\ spc[s] = "tick_unlock"
  /\ heap' = [heap EXCEPT ![sreg[s].task].mutex =
                IF @ = "locked" THEN "unlocked" ELSE @]
  /\ spc' = [spc EXCEPT ![s] = "tick_result"]
  /\ Silent
  /\ UNCHANGED <<counters, taskmgr_task_queue, taskmgr_scheduler_queue, taskmgr_running,
                 now, crashed, ghosts, initialised, sched, cpc, creg, sreg, shut_inside>>

\* lines 87-105
sched_tick_result(s) ==
  /\ ~crashed
  /\ spc[s] = "tick_result"
  /\ taskmgr_task_queue.alloc # "null"
  /\ taskmgr_task_queue' = tick_result_queue(taskmgr_task_queue, sreg[s].task, sreg[s].result)
  /\ heap' = tick_result_heap(heap, sreg[s].task, sreg[s].result, get_current_time)
  /\ spc' = [spc EXCEPT ![s] = "loop"]
  /\ sreg' = [sreg EXCEPT ![s] = NoTask]
  /\ Silent
  /\ UNCHANGED <<counters, taskmgr_scheduler_queue, taskmgr_running, now, crashed, ghosts,
                 initialised, sched, cpc, creg, shut_inside>>

\* a thread about to touch freed memory (the task queue after taskmgr_shutdown,
\* a task record after free_task) may bring the process down instead
touches_freed(s) ==
  \/ /\ spc[s] \in {"tick_empty", "tick_pop", "tick_pop_remove"}
     /\ taskmgr_task_queue.alloc # "live"
  \/ /\ spc[s] = "tick_due"
     /\ \/ heap[sreg[s].task].alloc = "freed"
        \/ /\ taskmgr_task_queue.alloc # "live"
           /\ task_not_due(heap[sreg[s].task], get_current_time)
  \/ /\ spc[s] \in {"tick_call", "tick_unlock"}
     /\ heap[sreg[s].task].alloc = "freed"
  \/ /\ spc[s] = "tick_result"
     /\ \/ heap[sreg[s].task].alloc = "freed"
        \/ /\ taskmgr_task_queue.alloc # "live"
           /\ sreg[s].result \in {TASK_RESULT_CONT, TASK_RESULT_WAIT}

sched_fault(s) ==
  /\ ~crashed
  /\ touches_freed(s)
  /\ crashed' = TRUE
  /\ Silent
  /\ UNCHANGED <<counters, taskmgr_task_queue, taskmgr_scheduler_queue, taskmgr_running,
                 heap, now, ghosts, initialised, threads, shut_inside>>

sched_step(s) ==
  \/ sched_run_check(s)
  \/ sched_run_set(s)
  \/ sched_run_loop(s)
  \/ sched_tick_empty(s)
  \/ sched_tick_pop(s)
  \/ sched_tick_pop_remove(s)
  \/ sched_tick_due(s)
  \/ sched_tick_call(s)
  \/ sched_tick_unlock(s)
  \/ sched_tick_result(s)
  \/ sched_fault(s)

\* ----------------------------------------------- API calls, step by step
\* line 165: taskmgr_next_task_id++ reads the counter ...
add_task_load(c) ==
  /\ ~crashed
  /\ cpc[c] = "idle"
  /\ taskmgr_task_queue.alloc = "live"
  /\ \E task \in TaskHandles : heap[task].alloc = "unused"
  /\ creg' = [creg EXCEPT ![c] = [tmp |-> taskmgr_next_task_id, obj |-> NULL]]
  /\ cpc' = [cpc EXCEPT ![c] = "add_task_store"]
  /\ Silent
  /\ UNCHANGED <<counters, taskmgr_task_queue, taskmgr_scheduler_queue, taskmgr_running,
                 heap, now, crashed, ghosts, initialised, sched, spc, sreg, shut_inside>>

\* ... and writes it back, one more
add_task_store(c) ==
  /\ ~crashed
  /\ cpc[c] = "add_task_store"
  /\ taskmgr_next_task_id' = creg[c].tmp + 1
  /\ cpc' = [cpc EXCEPT ![c] = "add_task_alloc"]
  /\ Silent
  /\ UNCHANGED <<taskmgr_next_scheduler_id, taskmgr_task_queue, taskmgr_scheduler_queue,
                 taskmgr_running, heap, now, crashed, ghosts, initialised, sched, creg,
                 spc, sreg, shut_inside>>

\* lines 167-175: the record, its id read back from the counter
add_task_alloc(c, func, delay) ==
  /\ ~crashed
  /\ cpc[c] = "add_task_alloc"
  /\ \E task \in TaskHandles :
       /\ heap[task].alloc = "unused"
       /\ \A other \in TaskHandles : heap[other].alloc = "unused" => task <= other
       /\ heap' = [heap EXCEPT ![task] =
                     [alloc |-> "live", id |-> taskmgr_next_task_id, func |-> func,
                      delayable |-> TRUE, delay |-> delay,
                      timestamp |-> get_current_time, mutex |-> "unlocked"]]
       /\ armed_at' = [armed_at EXCEPT ![task] = IF func = "f_wait" THEN now ELSE @]
       /\ creg' = [creg EXCEPT ![c].obj = task]
  /\ cpc' = [cpc EXCEPT ![c] = "add_task_push"]
  /\ Silent
  /\ UNCHANGED <<counters, taskmgr_task_queue, taskmgr_scheduler_queue, taskmgr_running,
                 now, crashed, calls, initialised, sched, spc, sreg, shut_inside>>

\* lines 176-177
add_task_push(c) ==
  /\ ~crashed
  /\ cpc[c] = "add_task_push"
  /\ taskmgr_task_queue.alloc = "live"
  /\ taskmgr_task_queue' = queue_push_right(taskmgr_task_queue, creg[c].obj)
  /\ cpc' = [cpc EXCEPT ![c] = "idle"]
  /\ creg' = [creg EXCEPT ![c] = NoReg]
  /\ Returns("add_task", creg[c].obj)
  /\ UNCHANGED <<counters, taskmgr_scheduler_queue, taskmgr_running, heap, now, crashed,
                 ghosts, initialised, sched, spc, sreg, shut_inside>>

\* line 252: taskmgr_next_scheduler_id++ reads the counter ...
add_scheduler_load(c) ==
  /\ ~crashed
  /\ cpc[c] = "idle"
  /\ taskmgr_scheduler_queue.alloc = "live"
  /\ \E s \in SchedHandles : sched[s].alloc = "unused"
  /\ creg' = [creg EXCEPT ![c] = [tmp |-> taskmgr_next_scheduler_id, obj |-> NULL]]
  /\ cpc' = [cpc EXCEPT ![c] = "add_scheduler_store"]
  /\ Silent
  /\ UNCHANGED <<counters, taskmgr_task_queue, taskmgr_scheduler_queue, taskmgr_running,
                 heap, now, crashed, ghosts, initialised, sched, spc, sreg, shut_inside>>

\* ... and writes it back, one more
add_scheduler_store(c) ==
  /\ ~crashed
  /\ cpc[c] = "add_scheduler_store"
  /\ taskmgr_next_scheduler_id' = creg[c].tmp + 1
  /\ cpc' = [cpc EXCEPT ![c] = "add_scheduler_create"]
  /\ Silent
  /\ UNCHANGED <<taskmgr_next_task_id, taskmgr_task_queue, taskmgr_scheduler_queue,
                 taskmgr_running, heap, now, crashed, ghosts, initialised, sched, creg,
                 spc, sreg, shut_inside>>

\* what pthread_attr_init and pthread_create may answer
CreateOutcomes == {"ok", "attr_failed", "create_failed"}

\* an add_scheduler that goes on whatever pthread answered
create_succeeded_always(outcome) == TRUE

\* lines 257 and 263-264: both pthread calls must answer 0
create_succeeded(outcome) == outcome = "ok"

\* lines 254-268: the record, its id read back from the counter, the thread
add_scheduler_create(c, outcome) ==
  /\ ~crashed
  /\ cpc[c] = "add_scheduler_create"
  /\ \E s \in SchedHandles :
       /\ sched[s].alloc = "unused"
       /\ \A other \in SchedHandles : sched[other].alloc = "unused" => s <= other
       /\ sched' = [sched EXCEPT ![s] = [alloc |-> "live", id |-> taskmgr_next_scheduler_id]]
       /\ IF create_succeeded(outcome)
            THEN /\ spc' = [spc EXCEPT ![s] = "run_check"]
                 /\ creg' = [creg EXCEPT ![c].obj = s]
                 /\ cpc' = [cpc EXCEPT ![c] = "add_scheduler_push"]
                 /\ Silent
            ELSE /\ creg' = [creg EXCEPT ![c] = NoReg]
                 /\ cpc' = [cpc EXCEPT ![c] = "idle"]
                 /\ Returns("add_scheduler", NULL)
                 /\ UNCHANGED spc
  /\ UNCHANGED <<counters, taskmgr_task_queue, taskmgr_scheduler_queue, taskmgr_running,
                 heap, now, crashed, ghosts, initialised, sreg, shut_inside>>

\* lines 270-271
add_scheduler_push(c) ==
  /\ ~crashed
  /\ cpc[c] = "add_scheduler_push"
  /\ taskmgr_scheduler_queue.alloc = "live"
  /\ taskmgr_scheduler_queue' = queue_push_right(taskmgr_scheduler_queue, creg[c].obj)
  /\ cpc' = [cpc EXCEPT ![c] = "idle"]
  /\ creg' = [creg EXCEPT ![c] = NoReg]
  /\ Returns("add_scheduler", creg[c].obj)
  /\ UNCHANGED <<counters, taskmgr_task_queue, taskmgr_running, heap, now, crashed,
                 ghosts, initialised, sched, spc, sreg, shut_inside>>

\* lines 274-286: the linear scan for an id, over a given registry
scheduler_by_id(queue, registry, id) ==
  IF \E i \in 0..queue_max_index(queue) : registry[queue_get(queue, i)].id = id
    THEN queue_get(queue,
           CHOOSE i \in 0..queue_max_index(queue) :
             /\ registry[queue_get(queue, i)].id = id
             /\ \A j \in 0..(i - 1) : registry[queue_get(queue, j)].id # id)
    ELSE NULL

get_scheduler_by_id(id) == scheduler_by_id(taskmgr_scheduler_queue, sched, id)

has_scheduler(s) == queue_get_index(taskmgr_scheduler_queue, s) # 0 - 1

has_scheduler_by_id(id) == get_scheduler_by_id(id) # NULL

\* lines 314-320: sentinel the id, destroy the attribute, free; the thread
\* is left alone
free_scheduler_registry(registry, s) ==
  [registry EXCEPT ![s] = [alloc |-> "freed", id |-> 0 - 1]]

free_scheduler(s) ==
  /\ ~crashed
  /\ sched[s].alloc = "live"
  /\ sched' = free_scheduler_registry(sched, s)
  /\ Returns("free_scheduler", 0)
  /\ UNCHANGED <<counters, taskmgr_task_queue, taskmgr_scheduler_queue, taskmgr_running,
                 heap, now, crashed, ghosts, initialised, cpc, creg, spc, sreg,
                 shut_inside>>

\* lines 288-301
remove_scheduler(s) ==
  /\ ~crashed
  /\ taskmgr_scheduler_queue.alloc = "live"
  /\ sched[s].alloc = "live"
  /\ IF queue_remove_object_ret(taskmgr_scheduler_queue, s) # 0
       THEN /\ Returns("remove_scheduler", 1)
            /\ UNCHANGED <<taskmgr_scheduler_queue, sched>>
       ELSE /\ taskmgr_scheduler_queue' = queue_remove_object(taskmgr_scheduler_queue, s)
            /\ sched' = free_scheduler_registry(sched, s)
            /\ Returns("remove_scheduler", 0)
  /\ UNCHANGED <<counters, taskmgr_task_queue, taskmgr_running, heap, now, crashed,
                 ghosts, initialised, cpc, creg, spc, sreg, shut_inside>>

\* ------------------------------------------------------- specifications
\* one caller thread using the API as documented
Next ==
  \/ advance_clock
  \/ taskmgr_init
  \/ \E func \in Funcs, delay \in Delays : add_task(func, delay)
  \/ taskmgr_tick
  \/ \E task \in TaskHandles : remove_task(task)
  \/ \E id \in TaskIds : remove_task_by_id(id)
  \/ taskmgr_shutdown

Spec == Init /\ [][Next]_vars

\* one caller thread that also frees tasks directly
NextFree ==
  \/ Next
  \/ \E task \in TaskHandles : free_task(task)
  \/ \E id \in TaskIds : free_task_by_id(id)

SpecFree == Init /\ [][NextFree]_vars

\* any sequence of task operations on a manager initialised once
NextTasks ==
  \/ (taskmgr_task_queue.alloc = "null" /\ taskmgr_init)
  \/ advance_clock
  \/ \E func \in Funcs, delay \in Delays : add_task(func, delay)
  \/ taskmgr_tick
  \/ \E task \in TaskHandles : remove_task(task)
  \/ \E id \in TaskIds : remove_task_by_id(id)
  \/ \E task \in TaskHandles : free_task(task)
  \/ \E id \in TaskIds : free_task_by_id(id)

SpecTasks == Init /\ [][NextTasks]_vars

\* one caller thread whose tasks include callables that always CONTINUE
NextCont ==
  \/ Next
  \/ \E delay \in Delays : add_task("f_cont", delay)

SpecCont == Init /\ [][NextCont]_vars

\* ------------------------------------------------------ the network loop
\* net.c: the task that net_start_server registered (g_net_resync_chain_task)
resync_task(task) == heap[task].alloc # "unused" /\ heap[task].func = "resync_chain"

\* g_net_server_running: set by net_start_server, which is also the one place
\* that registers resync_chain
g_net_server_running == \E task \in TaskHandles : resync_task(task)

\* net.c lines 247-257; RESYNC_CHAIN_TASK_DELAY is any delay
net_start_server(delay) ==
  /\ ~g_net_server_running
  /\ add_task("resync_chain", delay)

\* net.c lines 188-235: one iteration of the poll loop, which drives the
\* dispatcher at line 226 and ignores what it returns
net_run_server ==
  /\ g_net_server_running
  /\ taskmgr_tick

\* time goes on without end: once the clock is at MaxTime the origin moves
\* instead, which leaves every now - timestamp of line 69 as it would be
\* (a timestamp MaxTime back is due whatever its delay)
net_clock ==
  /\ ~crashed
  /\ IF now < MaxTime
       THEN /\ now' = now + 1
            /\ UNCHANGED <<heap, armed_at>>
       ELSE /\ now' = now
            /\ heap' = [task \in TaskHandles |->
                          IF heap[task].alloc = "live" /\ heap[task].timestamp > 0
                            THEN [heap[task] EXCEPT !.timestamp = @ - 1]
                            ELSE heap[task]]
            /\ armed_at' = [task \in TaskHandles |->
                              IF armed_at[task] > 0 THEN armed_at[task] - 1
                                                    ELSE armed_at[task]]
  /\ Returns("clock", 0)
  /\ UNCHANGED <<taskmgr_next_task_id, taskmgr_next_scheduler_id, taskmgr_task_queue,
                 taskmgr_scheduler_queue, taskmgr_running, crashed, calls,
                 initialised, threads, shut_inside>>

\* the poll loop is the only driver of the dispatcher; other tasks come and go
NextNet ==
  \/ (taskmgr_task_queue.alloc = "null" /\ taskmgr_init)
  \/ \E delay \in Delays : net_start_server(delay)
  \/ \E delay \in Delays : add_task("f_any", delay)
  \/ net_run_server
  \/ net_clock

\* the loop keeps iterating and the clock keeps advancing
SpecNet ==
  /\ Init
  /\ [][NextNet]_vars
  /\ WF_vars(net_run_server)
  /\ WF_vars(net_clock)

\* two threads creating tasks and schedulers at the same time
NextIds ==
  \/ (~initialised /\ taskmgr_init)
  \/ \E c \in Callers : add_task_load(c)
  \/ \E c \in Callers : add_task_store(c)
  \/ \E c \in Callers, func \in Funcs, delay \in Delays : add_task_alloc(c, func, delay)
  \/ \E c \in Callers : add_task_push(c)
  \/ \E c \in Callers : add_scheduler_load(c)
  \/ \E c \in Callers : add_scheduler_store(c)
  \/ \E c \in Callers, outcome \in CreateOutcomes : add_scheduler_create(c, outcome)
  \/ \E c \in Callers : add_scheduler_push(c)

SpecIds == Init /\ [][NextIds]_vars

\* the main thread drives the lifecycle while the scheduler threads it
\* created run taskmgr_run
main_idle == cpc["main"] = "idle"

\* the callables registered while schedulers run: f_any covers every tag
SchedFuncs == {"f_done", "f_any"}

NextSched ==
  \/ (taskmgr_task_queue.alloc = "null" /\ taskmgr_init)
  \/ (main_idle /\ taskmgr_shutdown)
  \/ \E func \in SchedFuncs, delay \in Delays : (main_idle /\ add_task(func, delay))
  \/ add_scheduler_load("main")
  \/ add_scheduler_store("main")
  \/ \E outcome \in CreateOutcomes : add_scheduler_create("main", outcome)
  \/ add_scheduler_push("main")
  \/ \E s \in SchedHandles : sched_step(s)

SpecSched == Init /\ [][NextSched]_vars

\* the main thread releases schedulers while their threads run
NextRemove ==
  \/ (taskmgr_task_queue.alloc = "null" /\ taskmgr_init)
  \/ \E func \in SchedFuncs : (main_idle /\ add_task(func, 0))
  \/ add_scheduler_load("main")
  \/ add_scheduler_store("main")
  \/ \E outcome \in CreateOutcomes : add_scheduler_create("main", outcome)
  \/ add_scheduler_push("main")
  \/ \E s \in SchedHandles : (main_idle /\ remove_scheduler(s))
  \/ \E s \in SchedHandles : (main_idle /\ free_scheduler(s))
  \/ \E s \in SchedHandles : sched_step(s)

SpecRemove == Init /\ [][NextRemove]_vars


\* ------------------------------------------------------------------ claims
manager_state == <<taskmgr_next_task_id, taskmgr_next_scheduler_id, taskmgr_task_queue,
                   taskmgr_scheduler_queue, taskmgr_running, heap, now, calls>>

\* no scheduler thread is in the middle of a tick
between_ticks(s) == spc[s] \in {"none", "run_check", "run_set", "loop"} \cup Returned

\* C1: with scheduler threads ticking concurrently, the callable of every
\* queued always-DONE task is invoked exactly once: never twice, and not zero
\* times once the queue is empty and every thread is between ticks.
C1_EachTaskRunsOnce ==
  \A task \in TaskHandles :
    (heap[task].func = "f_done" /\ heap[task].alloc # "unused") =>
      /\ calls[task] <= 1
      /\ (/\ ~crashed
          /\ queue_get_empty(taskmgr_task_queue)
          /\ \A s \in SchedHandles : between_ticks(s)) => calls[task] = 1

\* C2: ids are handed out in strictly increasing order, to tasks and to
\* schedulers alike, also when several threads create them at once.
C2_IdsUniqueIncreasing ==
  /\ \A t1, t2 \in TaskHandles :
       (t1 < t2 /\ heap[t1].alloc = "live" /\ heap[t2].alloc = "live") =>
         heap[t1].id < heap[t2].id
  /\ \A s1, s2 \in SchedHandles :
       (s1 < s2 /\ sched[s1].alloc = "live" /\ sched[s2].alloc = "live") =>
         sched[s1].id < sched[s2].id

\* C3: when the callable a tick invoked returns DONE (or any tag other than
\* CONTINUE / WAIT) the task is destroyed and gone from the queue: has_task,
\* has_task_by_id and get_task_by_id no longer find it; a destroyed task stays
\* destroyed and no later tick invokes its callable; a tick that pops an
\* always-DONE task added with delay 0 invokes it, for the first and only time,
\* and leaves the rest of the queue behind it.
C3_DoneRetiresTask ==
  /\ [][(ran'.task # NULL /\ ran'.result \notin {TASK_RESULT_CONT, TASK_RESULT_WAIT}) =>
          LET task == ran'.task
              id == heap[ran'.task].id
          IN  /\ heap'[task].alloc = "freed"
              /\ queue_get_index(taskmgr_task_queue', task) = 0 - 1
              /\ task_by_id(taskmgr_task_queue', heap', id) = NULL]_vars
  /\ [][\A task \in TaskHandles :
          /\ heap[task].alloc = "freed" => heap'[task].alloc = "freed"
          /\ ran'.task = task => heap[task].alloc = "live"]_vars
  /\ [][(op' = "taskmgr_tick" /\ ~queue_get_empty(taskmgr_task_queue)) =>
          LET task == queue_front(taskmgr_task_queue)
          IN  (heap[task].func = "f_done" /\ heap[task].delay = 0) =>
                /\ ran' = [task |-> task, result |-> TASK_RESULT_DONE]
                /\ calls[task] = 0 /\ calls'[task] = 1
                /\ taskmgr_task_queue'.objs = Tail(taskmgr_task_queue.objs)]_vars

\* a DONE task has just been retired while another task stays queued
C3_Witness ==
  \E task \in TaskHandles :
    /\ op = "taskmgr_tick"
    /\ ran = [task |-> task, result |-> TASK_RESULT_DONE]
    /\ heap[task].alloc = "freed"
    /\ calls[task] = 1
    /\ Len(taskmgr_task_queue.objs) >= 1

\* C4: an always-WAIT task with delay D is invoked only when the clock is at
\* least D past add_task (first invocation) or past its previous invocation.
C4_WaitSpacing ==
  [][\A task \in TaskHandles :
       (ran'.task = task /\ heap[task].func = "f_wait") =>
         now - armed_at[task] >= heap[task].delay]_vars

\* an always-WAIT task with the longest delay has run for the second time
C4_Witness ==
  \E task \in TaskHandles :
    /\ ran = [task |-> task, result |-> TASK_RESULT_WAIT]
    /\ heap[task].func = "f_wait"
    /\ heap[task].delay = MaxDelay
    /\ calls[task] = 2

\* C5: remove_task or free_task on a handle that is already destroyed
\* returns non-zero and leaves the queue and every task as they were.
C5_SecondDestroyFails ==
  [][\A task \in TaskHandles :
       (heap[task].alloc = "freed" /\ (remove_task(task) \/ free_task(task))) =>
         /\ ret' # 0
         /\ UNCHANGED <<taskmgr_task_queue, heap, crashed>>]_vars

\* C6: a scheduler thread leaves taskmgr_run only when the running flag is
\* clear or a tick has failed, so every thread add_scheduler started keeps
\* ticking while the flag is set.
C6_SchedulerThreadsKeepTicking ==
  [][\A s \in SchedHandles :
       (spc[s] \notin Returned /\ spc'[s] \in Returned) =>
         (~taskmgr_running \/ spc'[s] = "returned_120")]_vars

\* C7: an init() after a successful init() with no successful shutdown() in
\* between returns non-zero and keeps both queues; a shutdown() while the
\* manager is not running returns non-zero and changes nothing.
C7_LifecycleIdempotent ==
  [][/\ (op' = "taskmgr_init" /\ initialised) =>
          ret' # 0 /\ UNCHANGED <<taskmgr_task_queue, taskmgr_scheduler_queue>>
     /\ (op' = "taskmgr_shutdown" /\ ~taskmgr_running) =>
          ret' # 0 /\ UNCHANGED manager_state]_vars

\* C8: a thread that was inside taskmgr_run when taskmgr_shutdown succeeded
\* returns from it with result 0 (line 126), and nothing ends it before that.
C8_RunEndsAfterShutdown ==
  \A s \in shut_inside :
    /\ spc[s] \in Returned => spc[s] = "returned_126"
    /\ crashed => spc[s] \in Returned

\* C9: once remove_scheduler or free_scheduler has released a scheduler, its
\* thread has stopped.
C9_ReleasedSchedulerStopped ==
  \A s \in SchedHandles :
    sched[s].alloc = "freed" => spc[s] \in {"none"} \cup Returned

\* C10: taskmgr_tick on an empty task queue returns 0, invokes no callable
\* and leaves the queues, the running flag, the id counters and every task
\* as they were.
C10_TickOnEmptyQueue ==
  [][(op' = "taskmgr_tick" /\ queue_get_empty(taskmgr_task_queue)) =>
       /\ ret' = 0
       /\ ran' = NoRun
       /\ UNCHANGED manager_state]_vars

\* a tick has returned from an empty queue after tasks came and went
C10_Witness ==
  /\ op = "taskmgr_tick"
  /\ ran = NoRun
  /\ ret = 0
  /\ taskmgr_task_queue.alloc = "live"
  /\ queue_get_empty(taskmgr_task_queue)
  /\ taskmgr_next_task_id >= 0

\* no task in the task queue carries this id
id_not_queued(id) ==
  \A i \in 1..Len(taskmgr_task_queue.objs) : heap[taskmgr_task_queue.objs[i]].id # id

\* C11: remove_task_by_id with an id that no queued task carries returns
\* non-zero and leaves the task queue (same tasks, same order) and every
\* task as they were.
C11_RemoveUnknownIdFails ==
  [][\A id \in TaskIds :
       (id_not_queued(id) /\ remove_task_by_id(id)) =>
         /\ ret' # 0
         /\ UNCHANGED <<taskmgr_task_queue, heap, crashed>>]_vars

\* remove_task_by_id has just failed on a queue that holds tasks
C11_Witness ==
  /\ op = "remove_task_by_id"
  /\ ret # 0
  /\ Len(taskmgr_task_queue.objs) >= 1
  /\ \A i \in 1..Len(taskmgr_task_queue.objs) :
       heap[taskmgr_task_queue.objs[i]].alloc = "live"

\* C12: a task whose callable returns CONTINUE goes to the back of the queue
\* with delayable cleared; delayable stays cleared until the task is invoked
\* again; and the tick that pops a task with delayable cleared (in particular
\* an always-CONTINUE task that has run before) invokes its callable, whatever
\* its delay and whatever the clock says.
C12_ContinueRunsNextPop ==
  /\ [][(ran'.task # NULL /\ ran'.result = TASK_RESULT_CONT) =>
          LET task == ran'.task
          IN  /\ heap'[task].alloc = "live"
              /\ heap'[task].delayable = FALSE
              /\ heap'[task].delay = heap[task].delay
              /\ taskmgr_task_queue'.objs = Append(Tail(taskmgr_task_queue.objs), task)]_vars
  /\ [][\A task \in TaskHandles :
          (/\ heap[task].alloc = "live" /\ ~heap[task].delayable
           /\ heap'[task].alloc = "live" /\ heap'[task].delayable) =>
            ran'.task = task]_vars
  /\ [][(op' = "taskmgr_tick" /\ ~queue_get_empty(taskmgr_task_queue)) =>
          LET task == queue_front(taskmgr_task_queue)
          IN  (~heap[task].delayable \/ (heap[task].func = "f_cont" /\ calls[task] >= 1)) =>
                ran'.task = task]_vars

\* an always-CONTINUE task with the longest delay has run twice with no time
\* between the two invocations
C12_Witness ==
  \E task \in TaskHandles :
    /\ ran = [task |-> task, result |-> TASK_RESULT_CONT]
    /\ heap[task].func = "f_cont"
    /\ heap[task].delay = MaxDelay
    /\ MaxDelay > 0
    /\ calls[task] = 2
    /\ now - heap[task].timestamp = heap[task].delay

\* how often a task sits in the task queue
queued_times(task) ==
  Cardinality({i \in 1..Len(taskmgr_task_queue.objs) : taskmgr_task_queue.objs[i] = task})

\* C13: under the net loop the resync task that net_start_server registered
\* is never retired: it stays allocated and queued exactly once; every tick
\* that runs it gets WAIT and leaves it re-armed at the back of the queue;
\* and it is invoked again and again, whatever else is in the queue.
C13_ResyncRearmsForever ==
  /\ [](\A task \in TaskHandles :
          resync_task(task) => (heap[task].alloc = "live" /\ queued_times(task) = 1))
  /\ [][\A task \in TaskHandles :
          (ran'.task = task /\ resync_task(task)) =>
            /\ ran'.result = TASK_RESULT_WAIT
            /\ heap'[task].delayable
            /\ heap'[task].timestamp = now'
            /\ taskmgr_task_queue'.objs = Append(Tail(taskmgr_task_queue.objs), task)]_vars
  /\ \A task \in TaskHandles :
       [](resync_task(task) => <>(ran.task = task))

\* the resync task has just run for the second time while another task is
\* queued with it
C13_Witness ==
  \E task \in TaskHandles :
    /\ resync_task(task)
    /\ ran = [task |-> task, result |-> TASK_RESULT_WAIT]
    /\ calls[task] = 2
    /\ heap[task].delay = MaxDelay
    /\ Len(taskmgr_task_queue.objs) >= 2

\* a scheduler record whose thread was never created: what a failed
\* add_scheduler leaves behind
never_started(s) == sched[s].alloc = "live" /\ spc[s] = "none"

\* C14: an add_scheduler whose pthread_attr_init or pthread_create fails
\* returns NULL, starts no thread and leaves the scheduler registry as it
\* was; no lookup, by handle or by the id the call consumed, finds a
\* scheduler for it, then or later.
C14_FailedAddSchedulerRegistersNothing ==
  /\ [][\A outcome \in CreateOutcomes \ {"ok"} :
          add_scheduler_create("main", outcome) =>
            /\ op' = "add_scheduler"
            /\ ret' = NULL
            /\ UNCHANGED <<taskmgr_scheduler_queue, spc>>
            /\ scheduler_by_id(taskmgr_scheduler_queue', sched',
                               taskmgr_next_scheduler_id) = NULL]_vars
  /\ [](\A s \in SchedHandles :
          (never_started(s) /\ taskmgr_scheduler_queue.alloc = "live") =>
            /\ ~has_scheduler(s)
            /\ ~has_scheduler_by_id(sched[s].id))

\* add_scheduler has just failed while another scheduler is registered
C14_Witness ==
  /\ op = "add_scheduler"
  /\ ret = NULL
  /\ taskmgr_scheduler_queue.alloc = "live"
  /\ Len(taskmgr_scheduler_queue.objs) >= 1
  /\ \E s \in SchedHandles : never_started(s) /\ sched[s].id = taskmgr_next_scheduler_id

\* C15: between operations every task is queued or destroyed: a task that
\* is neither unused nor destroyed sits in the task queue exactly once, a
\* destroyed task sits in it not at all and is found by no lookup (has_task,
\* has_task_by_id, get_task_by_id), and no two tasks carry the same id.
C15_TaskStateInvariant ==
  /\ \A task \in TaskHandles :
       /\ heap[task].alloc = "live" => queued_times(task) = 1
       /\ heap[task].alloc # "live" =>
            /\ queued_times(task) = 0
            /\ ~has_task(task)
            /\ \A id \in TaskIds : get_task_by_id(id) # task
  /\ \A t1, t2 \in TaskHandles :
       (t1 # t2 /\ heap[t1].alloc = "live" /\ heap[t2].alloc = "live") =>
         heap[t1].id # heap[t2].id

\* C16: a tick that pops a task which free_task destroyed while it was
\* queued drops it: no callable is invoked, the task is not pushed back, and
\* the tick returns normally.
C16_DestroyedTaskDropped ==
  [][(op' = "taskmgr_tick" /\ ~queue_get_empty(taskmgr_task_queue)) =>
       LET task == queue_front(taskmgr_task_queue)
       IN  heap[task].alloc = "freed" =>
             /\ ran' = NoRun
             /\ taskmgr_task_queue'.objs = Tail(taskmgr_task_queue.objs)
             /\ ~crashed']_vars

\* a scheduler thread that has taken the guard and called task->func and has
\* not yet released the guard
inside_callable(s) == spc[s] = "tick_unlock"

\* C17: a thread inside a task's callable holds that task's guard, no two
\* threads are inside the same task's callable at once, and no thread takes
\* or releases the guard of a task that is already destroyed.
C17_GuardSerialisesCallable ==
  /\ [](\A s \in SchedHandles :
          inside_callable(s) =>
            /\ heap[sreg[s].task].alloc = "live"
            /\ heap[sreg[s].task].mutex = "locked"
            /\ \A other \in SchedHandles :
                 (other # s /\ inside_callable(other)) => sreg[other].task # sreg[s].task)
  /\ [][\A s \in SchedHandles :
          (sched_tick_call(s) \/ sched_tick_unlock(s)) =>
            heap[sreg[s].task].alloc = "live"]_vars

\* a queued task the dispatcher would run if it popped it now
due_in_queue(task) ==
  /\ heap[task].alloc = "live"
  /\ has_task(task)
  /\ ~task_not_due(heap[task], get_current_time)

\* C18: with one thread ticking, a due task at position k of the queue is
\* invoked by the (k+1)-th following tick: a tick invokes the due task at
\* position 0, and moves a due task at position k > 0 to position k - 1
\* without invoking it, whatever it did with the task it popped; the clock
\* moving on leaves a due task due and where it is.
C18_DueTaskLatency ==
  /\ [][op' = "taskmgr_tick" =>
          \A task \in TaskHandles :
            due_in_queue(task) =>
              IF queue_get_index(taskmgr_task_queue, task) = 0
                THEN ran'.task = task
                ELSE /\ ran'.task # task
                     /\ queue_get_index(taskmgr_task_queue', task) =
                          queue_get_index(taskmgr_task_queue, task) - 1
                     /\ heap'[task].alloc = "live"
                     /\ ~task_not_due(heap'[task], now')]_vars
  /\ [][op' = "clock" =>
          \A task \in TaskHandles :
            due_in_queue(task) =>
              /\ queue_get_index(taskmgr_task_queue', task) =
                   queue_get_index(taskmgr_task_queue, task)
              /\ heap'[task].alloc = "live"
              /\ ~task_not_due(heap'[task], now')]_vars

\* a due task has just been invoked by the tick after the one that found
\* the older task in front of it not yet due
C18_Witness ==
  \E task, other \in TaskHandles :
    /\ op = "taskmgr_tick"
    /\ ran.task = task
    /\ ran.result \in {TASK_RESULT_CONT, TASK_RESULT_WAIT}
    /\ heap[other].alloc = "live"
    /\ heap[other].id < heap[task].id
    /\ taskmgr_task_queue.objs = <<other, task>>
    /\ task_not_due(heap[other], get_current_time)
    /\ calls[other] = 0
    /\ heap[other].func = "f_wait"

\* C19: a tick that pops a task with delayable set and now - timestamp <
\* delay invokes no callable, returns 0, puts the task at the back of the
\* queue behind the others in their old order, and changes no field of any
\* task nor anything else of the manager.
C19_NotDueFrame ==
  [][(op' = "taskmgr_tick" /\ ~queue_get_empty(taskmgr_task_queue)) =>
       LET task == queue_front(taskmgr_task_queue)
       IN  (/\ heap[task].delayable
            /\ get_current_time - heap[task].timestamp < heap[task].delay) =>
             /\ ran' = NoRun
             /\ ret' = 0
             /\ taskmgr_task_queue'.objs = Append(Tail(taskmgr_task_queue.objs), task)
             /\ UNCHANGED <<heap, now, calls, taskmgr_next_task_id,
                            taskmgr_next_scheduler_id, taskmgr_scheduler_queue,
                            taskmgr_running, crashed>>]_vars

\* a tick has just put a task that is not yet due behind another task
C19_Witness ==
  /\ op = "taskmgr_tick"
  /\ ran = NoRun
  /\ ret = 0
  /\ Len(taskmgr_task_queue.objs) = 2
  /\ taskmgr_task_queue.objs[1] # taskmgr_task_queue.objs[2]
  /\ LET task == taskmgr_task_queue.objs[2]
         other == taskmgr_task_queue.objs[1]
     IN  /\ heap[task].alloc = "live"
         /\ heap[task].delayable
         /\ get_current_time - heap[task].timestamp < heap[task].delay
         /\ heap[other].alloc = "live"
         /\ ~task_not_due(heap[other], get_current_time)

\* a step of thread s that calls into the task queue: the emptiness check
\* of line 59, the pop of line 61, or a push-back of lines 73, 91 and 96
uses_task_queue(s) ==
  \/ sched_tick_empty(s)
  \/ sched_tick_pop(s)
  \/ sched_tick_pop_remove(s)
  \/ (sched_tick_due(s) /\ spc'[s] = "loop")
  \/ (sched_tick_result(s) /\ sreg[s].result \in {TASK_RESULT_CONT, TASK_RESULT_WAIT})

\* C20: once taskmgr_shutdown has freed the task queue no thread running
\* taskmgr_run performs a step of taskmgr_tick on it: no emptiness check, no
\* pop and no push-back.
C20_NoQueueUseAfterShutdown ==
  [][\A s \in SchedHandles :
       uses_task_queue(s) => taskmgr_task_queue.alloc # "freed"]_vars

====
